---- MODULE Spec2Model ----
(***************************************************************************)
(* Staged-edit lifecycle of the text/JSON/YAML editor backend              *)
(* (src/backend/app.py): the in-memory store `files`, the storage          *)
(* directory on disk, and the six request handlers.  Every request is one  *)
(* atomic step (one handler run from start to response).                  *)
(*                                                                         *)
(* Filenames are sequences of one-character strings so that Path.suffix,   *)
(* str.endswith and os.path.basename are computed as the code computes     *)
(* them.  Contents are opaque strings; json.loads / yaml.safe_load are     *)
(* library parsers, modelled by their accept/reject verdict on each        *)
(* content of the model.                                                   *)
(***************************************************************************)
EXTENDS Integers, Sequences, FiniteSets, TLC

VARIABLES files, disk, req, resp, prev, nreq, lastStored,
          race, formDir, formReq, formPage

vars == <<files, disk, req, resp, prev, nreq, lastStored,
          race, formDir, formReq, formPage>>

\* The request log of the API service, the two requests of the concurrent
\* run, and the state of the form-based editor.
logVars == <<req, resp, prev, nreq, lastStored>>
formVars == <<formDir, formReq, formPage>>

\* Bound on the number of requests of one run.
MaxRequests == 3

-----------------------------------------------------------------------------
\* Filenames and contents the requests are drawn from.

TXT == <<"a", ".", "t", "x", "t">>
JSON == <<"a", ".", "j", "s", "o", "n">>
YML == <<"a", ".", "y", "m", "l">>
MD == <<"a", ".", "m", "d">>
DOTFILE == <<".", "j", "s", "o", "n">>

Filenames == {TXT, JSON, YML, MD, DOTFILE}

\* "hello": plain text, a YAML scalar, not JSON.  "{\"a\":1}": JSON and YAML.
\* "[1, 2": unmatched bracket, neither JSON nor YAML.  "": YAML (None), not JSON.
Contents == {"hello", "{\"a\":1}", "[1, 2", ""}

\* Bytes of an upload that are not UTF-8.
BadBytes == "\\xff"

NoBody == "-"

\* The empty dict, the empty directory.
Empty == [f \in {} |-> NoBody]

FileRecord(content, dirty) == [content |-> content, dirty |-> dirty]

-----------------------------------------------------------------------------
\* String functions of the Python library, on sequences of characters.

RECURSIVE rfind(_, _, _)
\* str.rfind(ch) restricted to s[1..i]: the last index of ch, 0 when absent.
rfind(s, ch, i) ==
    IF i = 0 THEN 0
    ELSE IF s[i] = ch THEN i
    ELSE rfind(s, ch, i - 1)

endswith(s, suffix) ==
    /\ Len(suffix) <= Len(s)
    /\ SubSeq(s, Len(s) - Len(suffix) + 1, Len(s)) = suffix

\* os.path.basename: what follows the last "/".
basename(path) == SubSeq(path, rfind(path, "/", Len(path)) + 1, Len(path))

\* pathlib.PurePath.suffix of a single-component path: from the last dot on,
\* empty when there is no dot, when the name starts with its only dot, or
\* when the name ends with the dot.
suffix(name) ==
    LET i == rfind(name, ".", Len(name))
    IN IF 1 < i /\ i < Len(name) THEN SubSeq(name, i, Len(name)) ELSE <<>>

ALLOWED_EXTENSIONS ==
    { <<".", "t", "x", "t">>, <<".", "j", "s", "o", "n">>,
      <<".", "y", "a", "m", "l">>, <<".", "y", "m", "l">> }

\* json.loads(content) returns (TRUE) or raises JSONDecodeError (FALSE).
json_loads(content) == content \in {"{\"a\":1}"}

\* yaml.safe_load(content) returns (TRUE) or raises YAMLError (FALSE).
yaml_safe_load(content) == content \in {"hello", "{\"a\":1}", ""}

-----------------------------------------------------------------------------
\* Validator (no side effects).

\* Variant of _validate_extension that tests the end of the filename, as
\* _validate_content does, instead of Path.suffix.
validate_extension_endswith(filename) ==
    \E e \in ALLOWED_EXTENSIONS : endswith(filename, e)

\* _validate_extension: TRUE when it returns, FALSE when it raises
\* HTTPException(400, "Unsupported file type").
validate_extension(filename) == suffix(filename) \in ALLOWED_EXTENSIONS

\* _validate_content: "ok" when it returns, otherwise the exception the parser
\* raises; the function catches nothing.
validate_content(filename, content) ==
    IF endswith(filename, <<".", "j", "s", "o", "n">>) /\ ~json_loads(content)
    THEN "JSONDecodeError"
    ELSE IF /\ \/ endswith(filename, <<".", "y", "a", "m", "l">>)
               \/ endswith(filename, <<".", "y", "m", "l">>)
            /\ ~yaml_safe_load(content)
    THEN "YAMLError"
    ELSE "ok"

-----------------------------------------------------------------------------
\* Responses.  An HTTPException gives its own status and detail; any other
\* exception leaves the handler uncaught and the framework answers 500.

Reply(status, detail, body, wrote) ==
    [status |-> status, detail |-> detail, body |-> body, wrote |-> wrote]

Outcome(f, d, r) == [files |-> f, disk |-> d, resp |-> r]

\* A handler that raises before it has changed anything.
Raise(status, detail) == Outcome(files, disk, Reply(status, detail, NoBody, FALSE))

\* Variant of the store assignment that rebinds files to a new dict.
put_fresh(filename, content, dirty) ==
    [f \in {filename} |-> FileRecord(content, dirty)]

\* files[filename] = FileRecord(content=..., dirty=...)
put(filename, content, dirty) ==
    [f \in DOMAIN files \cup {filename} |->
        IF f = filename THEN FileRecord(content, dirty) ELSE files[f]]

\* files.get(filename) is not None
has(filename) == filename \in DOMAIN files

-----------------------------------------------------------------------------
\* The handlers: the outcome of one request in the current state.

\* Variant of upload_file that stores the record as dirty.
upload_dirty(filename, bytes) ==
    IF ~validate_extension(filename) THEN Raise(400, "Unsupported file type")
    ELSE IF bytes = BadBytes THEN Raise(500, "UnicodeDecodeError")
    ELSE IF validate_content(filename, bytes) # "ok"
    THEN Raise(500, validate_content(filename, bytes))
    ELSE Outcome(put(filename, bytes, TRUE), disk,
                 Reply(200, "uploaded", NoBody, FALSE))

\* POST /files/upload
upload(filename, bytes) ==
    IF ~validate_extension(filename) THEN Raise(400, "Unsupported file type")
    ELSE IF bytes = BadBytes THEN Raise(500, "UnicodeDecodeError")
    ELSE IF validate_content(filename, bytes) # "ok"
    THEN Raise(500, validate_content(filename, bytes))
    ELSE Outcome(put(filename, bytes, FALSE), disk,
                 Reply(200, "uploaded", NoBody, FALSE))

\* Variant of fetch_file that treats only a 404 answer as a failed fetch.
fetch_only_404(url, remote) ==
    IF remote.raises THEN Raise(500, "RequestException")
    ELSE IF remote.status_code = 404 THEN Raise(400, "Unable to fetch file")
    ELSE LET filename == basename(url)
         IN IF ~validate_extension(filename)
            THEN Raise(400, "Unsupported file type")
            ELSE IF validate_content(filename, remote.text) # "ok"
            THEN Raise(500, validate_content(filename, remote.text))
            ELSE Outcome(put(filename, remote.text, FALSE), disk,
                         Reply(200, "fetched", NoBody, FALSE))

\* POST /files/fetch.  remote is what requests.get does: "timeout" (it raises),
\* or a response with a status code and a text.
fetch(url, remote) ==
    IF remote.raises THEN Raise(500, "RequestException")
    ELSE IF remote.status_code # 200 THEN Raise(400, "Unable to fetch file")
    ELSE LET filename == basename(url)
         IN IF ~validate_extension(filename)
            THEN Raise(400, "Unsupported file type")
            ELSE IF validate_content(filename, remote.text) # "ok"
            THEN Raise(500, validate_content(filename, remote.text))
            ELSE Outcome(put(filename, remote.text, FALSE), disk,
                         Reply(200, "fetched", NoBody, FALSE))

\* Variant of create_file that also writes the new file to the storage
\* directory.
create_write_through(filename, content) ==
    IF ~validate_extension(filename) THEN Raise(400, "Unsupported file type")
    ELSE IF validate_content(filename, content) # "ok"
    THEN Raise(500, validate_content(filename, content))
    ELSE Outcome(put(filename, content, TRUE),
                 [f \in DOMAIN disk \cup {filename} |->
                     IF f = filename THEN content ELSE disk[f]],
                 Reply(200, "File created. Call save endpoint to persist.",
                       NoBody, FALSE))

\* POST /files/create
create(filename, content) ==
    IF ~validate_extension(filename) THEN Raise(400, "Unsupported file type")
    ELSE IF validate_content(filename, content) # "ok"
    THEN Raise(500, validate_content(filename, content))
    ELSE Outcome(put(filename, content, TRUE), disk,
                 Reply(200, "File created. Call save endpoint to persist.",
                       NoBody, FALSE))

\* Variant of read_file that answers from the storage directory.
read_from_disk(filename) ==
    IF ~has(filename) THEN Raise(404, "File not found")
    ELSE Outcome(files, disk,
                 Reply(200, "content",
                       IF filename \in DOMAIN disk THEN disk[filename] ELSE "",
                       FALSE))

\* GET /files/{filename}
read(filename) ==
    IF ~has(filename) THEN Raise(404, "File not found")
    ELSE Outcome(files, disk, Reply(200, "content", files[filename].content, FALSE))

\* Variant of update_file without the existence check (an upsert).
update_upsert(filename, content) ==
    IF validate_content(filename, content) # "ok"
    THEN Raise(500, validate_content(filename, content))
    ELSE Outcome(put(filename, content, TRUE), disk,
                 Reply(200, "Changes staged. Call save endpoint to persist.",
                       NoBody, FALSE))

\* Variant of update_file that forgets record.dirty = True.
update_keeps_flag(filename, content) ==
    IF ~has(filename) THEN Raise(404, "File not found")
    ELSE IF validate_content(filename, content) # "ok"
    THEN Raise(500, validate_content(filename, content))
    ELSE Outcome(put(filename, content, files[filename].dirty), disk,
                 Reply(200, "Changes staged. Call save endpoint to persist.",
                       NoBody, FALSE))

\* PUT /files/{filename}
update(filename, content) ==
    IF ~has(filename) THEN Raise(404, "File not found")
    ELSE IF validate_content(filename, content) # "ok"
    THEN Raise(500, validate_content(filename, content))
    ELSE Outcome(put(filename, content, TRUE), disk,
                 Reply(200, "Changes staged. Call save endpoint to persist.",
                       NoBody, FALSE))

\* What Path.write_text can do: "ok"; "open_fails" (mkdir or open raises
\* OSError, nothing written); "write_fails" (the file was opened and
\* truncated, then the write raises OSError).
IoOutcomes == {"ok", "open_fails", "write_fails"}

\* path.write_text(content) under STORAGE_DIR / filename.
write_text(filename, content, io) ==
    IF io = "open_fails" THEN disk
    ELSE [f \in DOMAIN disk \cup {filename} |->
            IF f # filename THEN disk[f]
            ELSE IF io = "ok" THEN content ELSE ""]

\* Variant of save_file that clears the flag without writing the file.
save_no_write(filename, io) ==
    IF ~has(filename) THEN Raise(404, "File not found")
    ELSE IF ~files[filename].dirty
    THEN Outcome(files, disk, Reply(200, "No changes to save.", NoBody, FALSE))
    ELSE Outcome(put(filename, files[filename].content, FALSE), disk,
                 Reply(200, "File saved.", NoBody, TRUE))

\* Variant of save_file without the dirty check.
save_ignores_dirty(filename, io) ==
    IF ~has(filename) THEN Raise(404, "File not found")
    ELSE IF io # "ok"
    THEN Outcome(files, write_text(filename, files[filename].content, io),
                 Reply(500, "OSError", NoBody, io = "write_fails"))
    ELSE Outcome(put(filename, files[filename].content, FALSE),
                 write_text(filename, files[filename].content, io),
                 Reply(200, "File saved.", NoBody, TRUE))

\* Variant of save_file that forgets record.dirty = False.
save_keeps_dirty(filename, io) ==
    IF ~has(filename) THEN Raise(404, "File not found")
    ELSE IF ~files[filename].dirty
    THEN Outcome(files, disk, Reply(200, "No changes to save.", NoBody, FALSE))
    ELSE IF io # "ok"
    THEN Outcome(files, write_text(filename, files[filename].content, io),
                 Reply(500, "OSError", NoBody, io = "write_fails"))
    ELSE Outcome(files, write_text(filename, files[filename].content, io),
                 Reply(200, "File saved.", NoBody, TRUE))

\* Variant of save_file that clears the flag before it writes the file.
save_clears_first(filename, io) ==
    IF ~has(filename) THEN Raise(404, "File not found")
    ELSE IF ~files[filename].dirty
    THEN Outcome(files, disk, Reply(200, "No changes to save.", NoBody, FALSE))
    ELSE Outcome(put(filename, files[filename].content, FALSE),
                 write_text(filename, files[filename].content, io),
                 IF io # "ok" THEN Reply(500, "OSError", NoBody, io = "write_fails")
                 ELSE Reply(200, "File saved.", NoBody, TRUE))

\* POST /files/{filename}/save
save(filename, io) ==
    IF ~has(filename) THEN Raise(404, "File not found")
    ELSE IF ~files[filename].dirty
    THEN Outcome(files, disk, Reply(200, "No changes to save.", NoBody, FALSE))
    ELSE IF io # "ok"
    THEN Outcome(files, write_text(filename, files[filename].content, io),
                 Reply(500, "OSError", NoBody, io = "write_fails"))
    ELSE Outcome(put(filename, files[filename].content, FALSE),
                 write_text(filename, files[filename].content, io),
                 Reply(200, "File saved.", NoBody, TRUE))

-----------------------------------------------------------------------------
\* The state machine: one step per request.

Request(op, filename, content, env) ==
    [op |-> op, filename |-> filename, content |-> content, env |-> env]

NoRequest == Request("none", <<>>, NoBody, "-")

StoreOps == {"upload", "fetch", "create", "update"}

\* No concurrent run in progress.
NoRace ==
    [filename |-> <<>>, content |-> NoBody, save |-> "done", saved |-> "-",
     update |-> "done", updated |-> "-", lateEdit |-> FALSE]

\* The form-based editor before its first request.
NoFormRequest == [method |-> "none", filename |-> <<>>, content |-> <<>>]
NoPage == [kind |-> "none", flash |-> "-", filename |-> <<>>, content |-> <<>>,
           files |-> {}]

\* Serve one request: apply the handler's outcome, log the request and the
\* one before it, and remember the content last stored under each filename.
Serve(r, out) ==
    /\ nreq < MaxRequests
    /\ nreq' = nreq + 1
    /\ files' = out.files
    /\ disk' = out.disk
    /\ resp' = out.resp
    /\ req' = r
    /\ prev' = [op |-> req.op, filename |-> req.filename]
    /\ lastStored' = IF r.op \in StoreOps /\ out.resp.status = 200
                     THEN [f \in DOMAIN lastStored \cup {r.filename} |->
                             IF f = r.filename THEN r.content ELSE lastStored[f]]
                     ELSE lastStored
    /\ UNCHANGED <<race, formVars>>

Init ==
    /\ files = Empty
    /\ disk = Empty
    /\ req = NoRequest
    /\ resp = Reply(0, "-", NoBody, FALSE)
    /\ prev = [op |-> "none", filename |-> <<>>]
    /\ nreq = 0
    /\ lastStored = Empty
    /\ race = NoRace
    /\ formDir = Empty
    /\ formReq = NoFormRequest
    /\ formPage = NoPage

upload_file ==
    \E filename \in Filenames, bytes \in Contents \cup {BadBytes} :
        Serve(Request("upload", filename, bytes, "-"), upload(filename, bytes))

Remote(raises, status_code, text) ==
    [raises |-> raises, status_code |-> status_code, text |-> text]

Remotes ==
    {Remote(TRUE, 0, NoBody), Remote(FALSE, 404, NoBody), Remote(FALSE, 500, NoBody)}
        \cup {Remote(FALSE, 200, c) : c \in Contents}

fetch_file ==
    \E filename \in Filenames, remote \in Remotes :
        LET url == <<"h", "/">> \o filename
        IN Serve(Request("fetch", basename(url),
                         remote.text,
                         IF remote.raises THEN "timeout"
                         ELSE ToString(remote.status_code)),
                 fetch(url, remote))

create_file ==
    \E filename \in Filenames, content \in Contents :
        Serve(Request("create", filename, content, "-"), create(filename, content))

read_file ==
    \E filename \in Filenames :
        Serve(Request("read", filename, NoBody, "-"), read(filename))

update_file ==
    \E filename \in Filenames, content \in Contents :
        Serve(Request("update", filename, content, "-"), update(filename, content))

save_file ==
    \E filename \in Filenames, io \in IoOutcomes :
        Serve(Request("save", filename, NoBody,
                      IF has(filename) /\ files[filename].dirty
                      THEN io ELSE "-"),
              save(filename, io))

Next ==
    \/ upload_file
    \/ fetch_file
    \/ create_file
    \/ read_file
    \/ update_file
    \/ save_file

Spec == Init /\ [][Next]_vars

-----------------------------------------------------------------------------
\* A save and an update of the same filename running concurrently.  The
\* handlers are plain functions, which the framework runs on worker threads;
\* each step below is one statement group of a handler, and the steps of the
\* two requests interleave freely on the shared store.

RaceNames == {TXT, YML}

\* The run starts from a store holding one record brought there by create,
\* update and save requests: a clean record has its content on disk, a dirty
\* one has an older content on disk or none.
RaceInit ==
    /\ \E f \in RaceNames, dirty \in BOOLEAN :
       \E c \in {x \in Contents : validate_content(f, x) = "ok"} :
       \E old \in {x \in Contents : validate_content(f, x) = "ok"} \cup {NoBody} :
           /\ files = [g \in {f} |-> FileRecord(c, dirty)]
           /\ disk = IF ~dirty THEN [g \in {f} |-> c]
                     ELSE IF old = NoBody THEN Empty
                     ELSE [g \in {f} |-> old]
           /\ race = [filename |-> f, content |-> NoBody,
                      save |-> "check", saved |-> "-",
                      update |-> "check", updated |-> "-", lateEdit |-> FALSE]
    /\ req = NoRequest
    /\ resp = Reply(0, "-", NoBody, FALSE)
    /\ prev = [op |-> "none", filename |-> <<>>]
    /\ nreq = 0
    /\ lastStored = Empty
    /\ formDir = Empty
    /\ formReq = NoFormRequest
    /\ formPage = NoPage

\* save_file, step 1: record = files.get(filename); the two early returns.
race_save_check ==
    /\ race.save = "check"
    /\ race' = IF ~has(race.filename)
               THEN [race EXCEPT !.save = "done", !.saved = "404"]
               ELSE IF ~files[race.filename].dirty
               THEN [race EXCEPT !.save = "done", !.saved = "No changes to save."]
               ELSE [race EXCEPT !.save = "write"]
    /\ UNCHANGED <<files, disk, logVars, formVars>>

\* Variant of step 2 of save_file that does not write the file.
race_save_write_skipped ==
    /\ race.save = "write"
    /\ race' = [race EXCEPT !.save = "clear"]
    /\ UNCHANGED <<files, disk, logVars, formVars>>

\* save_file, step 2: path.write_text(record.content), with the content the
\* record holds at this moment.
race_save_write ==
    /\ race.save = "write"
    /\ \E io \in IoOutcomes :
          /\ disk' = write_text(race.filename, files[race.filename].content, io)
          /\ race' = IF io = "ok" THEN [race EXCEPT !.save = "clear"]
                     ELSE [race EXCEPT !.save = "done", !.saved = "OSError"]
    /\ UNCHANGED <<files, logVars, formVars>>

\* save_file, step 3: record.dirty = False.
race_save_clear ==
    /\ race.save = "clear"
    /\ files' = [files EXCEPT ![race.filename].dirty = FALSE]
    /\ race' = [race EXCEPT !.save = "done", !.saved = "File saved."]
    /\ UNCHANGED <<disk, logVars, formVars>>

\* update_file, steps 1 and 2: the existence check and _validate_content.
race_update_check ==
    /\ race.update = "check"
    /\ \E content \in Contents :
          race' = IF ~has(race.filename)
                  THEN [race EXCEPT !.update = "done", !.updated = "404"]
                  ELSE IF validate_content(race.filename, content) # "ok"
                  THEN [race EXCEPT !.update = "done",
                                    !.updated = validate_content(race.filename, content)]
                  ELSE [race EXCEPT !.update = "content", !.content = content]
    /\ UNCHANGED <<files, disk, logVars, formVars>>

\* update_file, step 3a: record.content = payload.content.  lateEdit notes
\* that the concurrent save has already written the file.
race_update_content ==
    /\ race.update = "content"
    /\ files' = [files EXCEPT ![race.filename].content = race.content]
    /\ race' = [race EXCEPT !.update = "dirty",
                            !.lateEdit = race.save = "clear"
                                            \/ race.saved = "File saved."]
    /\ UNCHANGED <<disk, logVars, formVars>>

\* update_file, step 3b: record.dirty = True.
race_update_dirty ==
    /\ race.update = "dirty"
    /\ files' = [files EXCEPT ![race.filename].dirty = TRUE]
    /\ race' = [race EXCEPT !.update = "done", !.updated = "Changes staged."]
    /\ UNCHANGED <<disk, logVars, formVars>>

RaceNext ==
    \/ race_save_check
    \/ race_save_write
    \/ race_save_clear
    \/ race_update_check
    \/ race_update_content
    \/ race_update_dirty

RaceSpec == RaceInit /\ [][RaceNext]_vars

\* Both requests have returned.
RaceDone == race.filename # <<>> /\ race.save = "done" /\ race.update = "done"

-----------------------------------------------------------------------------
\* The form-based editor (src/file_editor): it writes to and reads from the
\* directory FILES_DIR directly.  Filenames and contents are sequences of
\* characters; "CR" and "LF" stand for carriage return and line feed.

UPPER == <<"a", ".", "J", "S", "O", "N">>
NODOT == <<"a">>
DEFAULT_FILENAME ==
    <<"u", "n", "t", "i", "t", "l", "e", "d", ".", "t", "x", "t">>

FormNames == {TXT, UPPER, DOTFILE, MD, NODOT, <<>>}

FormContents == { <<>>, <<"a", "LF", "b">>, <<"a", "CR", "LF", "b">> }

FORM_ALLOWED_EXTENSIONS ==
    { <<"y", "a", "m", "l">>, <<"y", "m", "l">>, <<"j", "s", "o", "n">>,
      <<"t", "x", "t">> }

UpperCase ==
    <<"A", "B", "C", "D", "E", "F", "G", "H", "I", "J", "K", "L", "M",
      "N", "O", "P", "Q", "R", "S", "T", "U", "V", "W", "X", "Y", "Z">>
LowerCase ==
    <<"a", "b", "c", "d", "e", "f", "g", "h", "i", "j", "k", "l", "m",
      "n", "o", "p", "q", "r", "s", "t", "u", "v", "w", "x", "y", "z">>

\* str.lower()
lower(s) ==
    [i \in 1..Len(s) |->
        IF \E k \in 1..26 : UpperCase[k] = s[i]
        THEN LowerCase[CHOOSE k \in 1..26 : UpperCase[k] = s[i]]
        ELSE s[i]]

RECURSIVE lstrip(_, _)
\* str.lstrip(ch)
lstrip(s, ch) == IF s # <<>> /\ s[1] = ch THEN lstrip(Tail(s), ch) ELSE s

\* Variant of allowed_file that compares the extension case-sensitively.
allowed_file_case_sensitive(filename) ==
    /\ rfind(filename, ".", Len(filename)) > 0
    /\ SubSeq(filename, rfind(filename, ".", Len(filename)) + 1, Len(filename))
           \in FORM_ALLOWED_EXTENSIONS

\* allowed_file: "." in filename and
\* filename.rsplit(".", 1)[1].lower() in ALLOWED_EXTENSIONS
allowed_file(filename) ==
    /\ rfind(filename, ".", Len(filename)) > 0
    /\ lower(SubSeq(filename, rfind(filename, ".", Len(filename)) + 1,
                    Len(filename))) \in FORM_ALLOWED_EXTENSIONS

\* list_files: the names in FILES_DIR whose p.suffix.lstrip(".") is in
\* ALLOWED_EXTENSIONS (the order of iterdir is not modelled).
list_files ==
    {n \in DOMAIN formDir : lstrip(suffix(n), ".") \in FORM_ALLOWED_EXTENSIONS}

RECURSIVE universal_newlines(_)
\* What reading in text mode does to line endings: "\r\n" and "\r" are
\* read as "\n".
universal_newlines(s) ==
    IF s = <<>> THEN <<>>
    ELSE IF s[1] = "CR"
    THEN IF Len(s) >= 2 /\ s[2] = "LF"
         THEN <<"LF">> \o universal_newlines(SubSeq(s, 3, Len(s)))
         ELSE <<"LF">> \o universal_newlines(Tail(s))
    ELSE <<s[1]>> \o universal_newlines(Tail(s))

\* file_path.read_text(encoding="utf-8")
form_read_text(filename) == universal_newlines(formDir[filename])

\* file_path.write_text(content, encoding="utf-8") on a POSIX host, where
\* os.linesep is "\n" and the text is written as given; io as for the API
\* service.
form_write_text(filename, content, io) ==
    IF io = "open_fails" THEN formDir
    ELSE [f \in DOMAIN formDir \cup {filename} |->
            IF f # filename THEN formDir[f]
            ELSE IF io = "ok" THEN content ELSE <<>>]

Page(kind, flash, filename, content, listing) ==
    [kind |-> kind, flash |-> flash, filename |-> filename,
     content |-> content, files |-> listing]

FormOutcome(d, p) == [dir |-> d, page |-> p]

\* Variant of the POST branch of index without the extension check.
index_post_unchecked(filename, content, io) ==
    IF io # "ok"
    THEN FormOutcome(form_write_text(filename, content, io),
                     Page("error", "OSError", <<>>, <<>>, {}))
    ELSE FormOutcome(form_write_text(filename, content, io),
                     Page("redirect", "Saved", filename, <<>>, {}))

\* index, request.method == "POST"
index_post(filename, content, io) ==
    IF ~allowed_file(filename)
    THEN FormOutcome(formDir,
                     Page("redirect", "Unsupported file type.", <<>>, <<>>, {}))
    ELSE IF io # "ok"
    THEN FormOutcome(form_write_text(filename, content, io),
                     Page("error", "OSError", <<>>, <<>>, {}))
    ELSE FormOutcome(form_write_text(filename, content, io),
                     Page("redirect", "Saved", filename, <<>>, {}))

\* index, request.method == "GET"; an absent filename argument behaves as the
\* empty one.
index_get(filename) ==
    FormOutcome(formDir,
                Page("page", "-", filename,
                     IF filename # <<>> /\ allowed_file(filename)
                        /\ filename \in DOMAIN formDir
                     THEN form_read_text(filename) ELSE <<>>,
                     list_files))

FormRequest(method, filename, content) ==
    [method |-> method, filename |-> filename, content |-> content]

FormServe(r, out) ==
    /\ formReq' = r
    /\ formDir' = out.dir
    /\ formPage' = out.page
    /\ UNCHANGED <<files, disk, logVars, race>>

FormInit ==
    /\ formDir = Empty
    /\ formReq = NoFormRequest
    /\ formPage = NoPage
    /\ files = Empty
    /\ disk = Empty
    /\ req = NoRequest
    /\ resp = Reply(0, "-", NoBody, FALSE)
    /\ prev = [op |-> "none", filename |-> <<>>]
    /\ nreq = 0
    /\ lastStored = Empty
    /\ race = NoRace

\* A POST of the form; a form without a filename field gets DEFAULT_FILENAME.
\* The filename field of a posted form: given, or absent.
FormFields ==
    {[given |-> TRUE, name |-> n] : n \in FormNames}
        \cup {[given |-> FALSE, name |-> <<>>]}

form_post ==
    \E field \in FormFields, content \in FormContents, io \in IoOutcomes :
        LET filename == IF field.given THEN field.name ELSE DEFAULT_FILENAME
        IN FormServe(FormRequest("POST", filename, content),
                     index_post(filename, content, io))

form_get ==
    \E filename \in FormNames :
        FormServe(FormRequest("GET", filename, <<>>), index_get(filename))

FormNext ==
    \/ form_post
    \/ form_get

FormSpec == FormInit /\ [][FormNext]_vars

-----------------------------------------------------------------------------
\* Vocabulary of the properties.

\* The filenames of the model whose extension is in the allow-set
\* {.txt, .json, .yaml, .yml}, and the others.
AllowedNames == {TXT, JSON, YML}
DisallowedNames == Filenames \ AllowedNames

WritePathOps == {"upload", "fetch", "create"}

ClientError(status) == 400 <= status /\ status <= 499

\* The content the request carries is malformed for the type of its filename.
Malformed(r) ==
    \/ r.filename = JSON /\ r.content \in Contents \ {"{\"a\":1}"}
    \/ r.filename = YML /\ r.content \in {"[1, 2"}

-----------------------------------------------------------------------------
\* C1: whenever a record's dirty flag is false, the file stored on disk under
\* its filename exists and its content equals the record's in-memory content.
C1_CleanMatchesDisk ==
    \A f \in DOMAIN files :
        ~files[f].dirty => f \in DOMAIN disk /\ disk[f] = files[f].content

\* C2: a step in which a record's dirty flag goes from true to false is a save
\* of that filename that wrote the content to disk.
C2_ClearedOnlyBySave ==
    [][\A f \in DOMAIN files :
          (files[f].dirty /\ ~files'[f].dirty) =>
              /\ req'.op = "save"
              /\ req'.filename = f
              /\ resp'.wrote
              /\ disk'[f] = files[f].content]_vars

\* C3 as written: upload, fetch and create of a filename with a disallowed
\* extension answer 400 "Unsupported file type" and change neither the store
\* nor the disk.
C3_RejectsUnsupported ==
    [][(req'.op \in WritePathOps /\ req'.filename \in DisallowedNames) =>
          /\ resp'.status = 400
          /\ resp'.detail = "Unsupported file type"
          /\ files' = files
          /\ disk' = disk]_vars

\* C3 amended: upload and create of a filename with a disallowed extension
\* answer 400 "Unsupported file type", and so does fetch when the remote
\* server answered 200; a fetch whose remote answer is not 200 answers 400
\* "Unable to fetch file" and a fetch whose request raises answers 500.  In
\* every case the store and the disk are unchanged.
C3_RejectsUnsupportedAmended ==
    [][(req'.op \in WritePathOps /\ req'.filename \in DisallowedNames) =>
          /\ files' = files
          /\ disk' = disk
          /\ (req'.op = "fetch" /\ req'.env = "timeout") => resp'.status = 500
          /\ (req'.op = "fetch" /\ req'.env \in {"404", "500"}) =>
                 resp'.status = 400 /\ resp'.detail = "Unable to fetch file"
          /\ (req'.op # "fetch" \/ req'.env = "200") =>
                 resp'.status = 400 /\ resp'.detail = "Unsupported file type"]_vars

\* A create of a filename with a disallowed extension was rejected while the
\* store held a record.
C3_Witness ==
    /\ req.op = "create"
    /\ req.filename \in DisallowedNames
    /\ resp.status = 400
    /\ resp.detail = "Unsupported file type"
    /\ files # Empty

\* C4: an upload, fetch, create or update whose content is malformed for its
\* .json or .yml filename ends with a 400-class error and changes neither the
\* store nor the disk.
C4_MalformedIs400 ==
    [][(req'.op \in StoreOps /\ Malformed(req')) =>
          /\ ClientError(resp'.status)
          /\ files' = files
          /\ disk' = disk]_vars

\* C5: a successful save of a dirty record leaves the disk content of the
\* filename equal to the record's content, whatever was on disk before, keeps
\* the record's content and clears its dirty flag; nothing else changes.
C5_SaveWritesAndClears ==
    [][\A f \in DOMAIN files :
          (req'.op = "save" /\ req'.filename = f /\ files[f].dirty
              /\ resp'.status = 200) =>
              /\ resp'.detail = "File saved."
              /\ resp'.wrote
              /\ f \in DOMAIN disk'
              /\ disk'[f] = files[f].content
              /\ files' = [files EXCEPT ![f].dirty = FALSE]
              /\ \A g \in DOMAIN disk \ {f} :
                     g \in DOMAIN disk' /\ disk'[g] = disk[g]]_vars

\* A save has just written a record created with non-empty content.
C5_Witness ==
    /\ req.op = "save"
    /\ resp.status = 200
    /\ resp.wrote
    /\ prev = [op |-> "create", filename |-> req.filename]
    /\ disk[req.filename] = files[req.filename].content
    /\ disk[req.filename] # ""
    /\ ~files[req.filename].dirty

\* C6: read, update and save of a filename without a record answer 404 "File
\* not found", change no record, create none and write nothing; on a filename
\* with a record they never answer 404.
C6_UnknownIs404 ==
    [][req'.op \in {"read", "update", "save"} =>
          IF req'.filename \notin DOMAIN files
          THEN /\ resp'.status = 404
               /\ resp'.detail = "File not found"
               /\ ~resp'.wrote
               /\ files' = files
               /\ disk' = disk
          ELSE resp'.status # 404]_vars

\* An update of a filename without a record was answered 404 while the store
\* held another record.
C6_Witness ==
    /\ req.op = "update"
    /\ req.filename \in AllowedNames
    /\ resp.status = 404
    /\ req.filename \notin DOMAIN files
    /\ files # Empty

\* C7: save of a record that is not dirty answers 200 "No changes to save.",
\* writes nothing (the disk is unchanged, also when it holds no file of that
\* name) and leaves the store unchanged.
C7_CleanSaveIsNoOp ==
    [][\A f \in DOMAIN files :
          (req'.op = "save" /\ req'.filename = f /\ ~files[f].dirty) =>
              /\ resp'.status = 200
              /\ resp'.detail = "No changes to save."
              /\ ~resp'.wrote
              /\ disk' = disk
              /\ files' = files]_vars

\* A clean record with no file on disk was saved: nothing was written.
C7_Witness ==
    /\ req.op = "save"
    /\ resp.detail = "No changes to save."
    /\ req.filename \in DOMAIN files
    /\ req.filename \notin DOMAIN disk

DiskWrites(r) == IF r.wrote THEN 1 ELSE 0

\* C8 as written: two saves in a row of a filename that has a record perform
\* exactly one disk write in total, and the second leaves store and disk as
\* the first left them.
C8_SaveTwiceOneWrite ==
    [][(req.op = "save" /\ req'.op = "save" /\ req'.filename = req.filename
          /\ req.filename \in DOMAIN files) =>
          /\ DiskWrites(resp) + DiskWrites(resp') = 1
          /\ files' = files
          /\ disk' = disk]_vars

\* C8 amended: when the first of two saves in a row of a filename that has a
\* record does not fail, the second is a no-op ("No changes to save.") that
\* writes nothing and leaves store and disk as the first left them; the two
\* perform one disk write in total when the first one saved a dirty record
\* and none when the record was already clean.
C8_SaveTwiceAmended ==
    [][(req.op = "save" /\ req'.op = "save" /\ req'.filename = req.filename
          /\ req.filename \in DOMAIN files /\ resp.status = 200) =>
          /\ resp'.status = 200
          /\ resp'.detail = "No changes to save."
          /\ ~resp'.wrote
          /\ files' = files
          /\ disk' = disk
          /\ DiskWrites(resp) + DiskWrites(resp') =
                 (IF resp.detail = "File saved." THEN 1 ELSE 0)]_vars

\* A record was created, saved and saved again: the file is on disk and the
\* second save reported nothing to save.
C8_Witness ==
    /\ nreq = 3
    /\ prev = [op |-> "save", filename |-> req.filename]
    /\ req.op = "save"
    /\ resp.detail = "No changes to save."
    /\ req.filename \in DOMAIN disk
    /\ disk[req.filename] = files[req.filename].content

\* C9: update of a filename that has a record, with content that passes
\* validation, sets the record to the new content with dirty true whatever it
\* was before, writes nothing to disk, and adds or removes no filename.
C9_UpdateStages ==
    [][\A f \in DOMAIN files :
          (req'.op = "update" /\ req'.filename = f
              /\ validate_content(f, req'.content) = "ok") =>
              /\ resp'.status = 200
              /\ ~resp'.wrote
              /\ files' = [files EXCEPT ![f] = FileRecord(req'.content, TRUE)]
              /\ DOMAIN files' = DOMAIN files
              /\ disk' = disk]_vars

\* An uploaded (clean) record was updated and is now dirty.
C9_Witness ==
    /\ req.op = "update"
    /\ resp.status = 200
    /\ prev = [op |-> "upload", filename |-> req.filename] /\ nreq = 2
    /\ files[req.filename] = FileRecord(req.content, TRUE)
    /\ req.content # ""

\* C10: the record of a filename holds exactly the content last stored under
\* it by a successful upload, fetch, create or update, and a read returns
\* exactly that content, also after saves.
C10_RoundTrip ==
    /\ \A f \in DOMAIN lastStored :
           f \in DOMAIN files /\ files[f].content = lastStored[f]
    /\ (req.op = "read" /\ req.filename \in DOMAIN lastStored) =>
           resp.status = 200 /\ resp.body = lastStored[req.filename]
    /\ (req.op \in StoreOps /\ resp.status = 200) =>
           /\ req.filename \in AllowedNames
           /\ req.content \in Contents
           /\ lastStored[req.filename] = req.content

\* JSON content was created, saved and then read back unchanged.
C10_Witness ==
    /\ req.op = "read"
    /\ req.filename = JSON
    /\ prev = [op |-> "save", filename |-> JSON]
    /\ resp.body = "{\"a\":1}"
    /\ lastStored[JSON] = resp.body
    /\ JSON \in DOMAIN disk /\ disk[JSON] = resp.body

\* C11: a successful create leaves a record with the given content and dirty
\* true, also over an existing record, and a dirty record stays dirty in every
\* step that is not a save of its filename.
C11_CreateDirtyUntilSave ==
    [][/\ (req'.op = "create" /\ resp'.status = 200) =>
             /\ req'.filename \in DOMAIN files'
             /\ files'[req'.filename] = FileRecord(req'.content, TRUE)
       /\ \A f \in DOMAIN files :
             (files[f].dirty /\ ~(req'.op = "save" /\ req'.filename = f)) =>
                 files'[f].dirty]_vars

\* C12: a fetch whose remote answer has a status other than 200 ends with 400
\* "Unable to fetch file" and changes neither the store nor the disk, whatever
\* the filename in the URL.
C12_FetchFailureNoChange ==
    [][(req'.op = "fetch" /\ req'.env \notin {"200", "timeout"}) =>
          /\ resp'.status = 400
          /\ resp'.detail = "Unable to fetch file"
          /\ ~resp'.wrote
          /\ files' = files
          /\ disk' = disk]_vars

\* A fetch answered 500 by the remote server was rejected; the record already
\* held under the filename of the URL is still there.
C12_Witness ==
    /\ req.op = "fetch"
    /\ req.env = "500"
    /\ resp.status = 400
    /\ resp.detail = "Unable to fetch file"
    /\ req.filename \in DOMAIN files

\* C13: a save whose disk write fails ends with an error and leaves the record
\* dirty with its content unchanged; a save of the same filename right after
\* it attempts the write again instead of reporting "No changes to save.".
C13_FailedSaveStaysDirty ==
    [][/\ (req'.op = "save" /\ req'.env \in {"open_fails", "write_fails"}) =>
             /\ resp'.status = 500
             /\ files' = files
             /\ files'[req'.filename].dirty
       /\ (req.op = "save" /\ resp.status = 500 /\ req'.op = "save"
             /\ req'.filename = req.filename) =>
             /\ req'.env \in IoOutcomes
             /\ resp'.detail # "No changes to save."
             /\ req'.env = "ok" =>
                    /\ resp'.wrote
                    /\ disk'[req'.filename] = files[req'.filename].content
                    /\ ~files'[req'.filename].dirty]_vars

\* A save failed and the save after it wrote the file.
C13_Witness ==
    /\ prev = [op |-> "save", filename |-> req.filename]
    /\ req.op = "save"
    /\ resp.detail = "File saved."
    /\ nreq = 3
    /\ disk[req.filename] = files[req.filename].content

C16_DiskOnlyBySave ==
    [][disk' # disk =>
          /\ req'.op = "save"
          /\ req'.filename \in DOMAIN files
          /\ files[req'.filename].dirty
          /\ \A g \in DOMAIN disk' \ {req'.filename} :
                 g \in DOMAIN disk /\ disk'[g] = disk[g]
          /\ DOMAIN disk \subseteq DOMAIN disk']_vars

\* A staged edit of an existing record was saved to disk.
C16_Witness ==
    /\ nreq = 3
    /\ prev = [op |-> "update", filename |-> req.filename]
    /\ req.op = "save"
    /\ resp.wrote
    /\ resp.status = 200
    /\ disk[req.filename] = lastStored[req.filename]

\* C17: a request on one filename leaves the records and the disk files of all
\* other filenames as they were, and no request removes a record.
C17_OtherFilesUntouched ==
    [][/\ DOMAIN files \subseteq DOMAIN files'
       /\ DOMAIN files' \subseteq DOMAIN files \cup {req'.filename}
       /\ DOMAIN disk' \subseteq DOMAIN disk \cup {req'.filename}
       /\ \A g \in DOMAIN files \ {req'.filename} : files'[g] = files[g]
       /\ \A g \in DOMAIN disk \ {req'.filename} :
             g \in DOMAIN disk' /\ disk'[g] = disk[g]]_vars

\* A second record was created while the first one, saved to disk, is kept.
C17_Witness ==
    /\ nreq = 3
    /\ req.op = "create"
    /\ resp.status = 200
    /\ \E g \in DOMAIN files \ {req.filename} :
          g \in DOMAIN disk /\ disk[g] = files[g].content /\ ~files[g].dirty

FormAccepted == {TXT, UPPER, DOTFILE, DEFAULT_FILENAME}
FormRejected == {MD, NODOT, <<>>}

\* What every version of C18 says of a POST: a rejected filename writes
\* nothing; an accepted one whose write succeeds puts exactly the submitted
\* content on disk under that filename and touches no other file.
FormPostWrites ==
    /\ (formReq'.method = "POST" /\ formReq'.filename \in FormRejected) =>
           /\ formDir' = formDir
           /\ formPage'.flash = "Unsupported file type."
    /\ (formReq'.method = "POST" /\ formReq'.filename \in FormAccepted
           /\ formPage'.flash = "Saved") =>
           /\ formReq'.filename \in DOMAIN formDir'
           /\ formDir'[formReq'.filename] = formReq'.content
           /\ \A g \in DOMAIN formDir \ {formReq'.filename} :
                  g \in DOMAIN formDir' /\ formDir'[g] = formDir[g]

\* A GET of the filename follows a POST that saved it.
GetAfterSave ==
    /\ formReq.method = "POST"
    /\ formPage.flash = "Saved"
    /\ formReq'.method = "GET"
    /\ formReq'.filename = formReq.filename

\* C18 as written: in the form editor a POST of a disallowed filename writes
\* nothing, a POST of an allowed one writes the content to disk at once, and
\* the GET of that filename after it loads exactly the submitted content.
C18_FormSaveThenLoad ==
    [][/\ FormPostWrites
       /\ GetAfterSave => formPage'.content = formReq.content]_vars

\* C18 amended: as above, but the GET loads the submitted content with its
\* line endings "\r\n" and "\r" read as "\n"; it is exactly the submitted
\* content when that contains no carriage return.
C18_FormSaveThenLoadAmended ==
    [][/\ FormPostWrites
       /\ GetAfterSave =>
             /\ formPage'.content = universal_newlines(formReq.content)
             /\ (\A i \in 1..Len(formReq.content) : formReq.content[i] # "CR")
                    => formPage'.content = formReq.content]_vars

\* Content with a line feed was saved as a.txt and loaded back unchanged.
C18_Witness ==
    /\ formReq.method = "GET"
    /\ formReq.filename = TXT
    /\ formPage.content = <<"a", "LF", "b">>
    /\ formDir[TXT] = formPage.content
    /\ MD \notin DOMAIN formDir

\* C19: every file a POST accepted and saved is in the result of list_files,
\* and every filename list_files returns satisfies allowed_file.
C19_ListingAgrees ==
    /\ \A n \in list_files : allowed_file(n)
    /\ (formReq.method = "POST" /\ formPage.flash = "Saved") =>
           formReq.filename \in list_files

====
